---- MODULE Spec2Model ----
(***************************************************************************)
(* Model of migrate_to_release_pipeline.py: the migration of the           *)
(* sub-labels of a parent label into releases of a release pipeline.       *)
(*                                                                         *)
(* The remote (Linear's GraphQL API) is the environment: it holds the      *)
(* sub-labels, the issues tagged with each of them, the releases of the    *)
(* pipeline and the issue-to-release memberships, and it answers every     *)
(* request with a response the model draws from a small set.  Every remote *)
(* request of the script is one step of the model.                         *)
(*                                                                         *)
(* A second, independent program, linear_to_bigquery.py, is modelled by    *)
(* the variable etl and the actions named Etl...: the extraction of the    *)
(* streams of Linear and their load into BigQuery.                         *)
(***************************************************************************)
EXTENDS Integers, Sequences, FiniteSets, Bags, TLC

\* ------------------------------------------------------------------ bounds

MaxLabels == 2
MaxItems == 2
MaxExisting == 2
MaxPageSize == 2
MaxStreams == 2

\* --------------------------------------------------------------- constants

\* "first": 100 in the variables of every paginated query.
First == 100

\* Python's None cursor of the first request; an endCursor is the (positive)
\* offset of the last node of its page.
NoCursor == 0

\* Python's None (a release without version, no release selected).
None == "None"

\* Names of sub-labels; names and versions of releases.
Names == {"a", "b"}

VARIABLES
    \* the remote
    subLabels,          \* the sub-labels of the parent label, in remote order
    tagged,             \* tagged[i]: the issues carrying label i, in remote order
    releases,           \* the releases of the pipeline, in remote order
    releases0,          \* the releases of the pipeline before the first run
    memberships,        \* bag of <<issue id, release id>> membership records
    pageSize,           \* the number of nodes the remote puts in a page
    \* the invocation
    config,             \* per value: its flag, its environment variable and
                        \* the value pasted at the top of the file
    \* one run of main()
    dryRun,             \* args.dry_run
    args,               \* api_key, parent_label_id, pipeline_id, release_stage_id
    pc,                 \* the position of main()
    sub_labels,         \* main's sub_labels
    existing_releases,  \* main's existing_releases
    li,                 \* index of `lab` in sub_labels
    issues,             \* main's issues
    ii,                 \* index of `issue` in issues
    release,            \* main's release
    nodes,              \* the running enumerator's nodes
    cursor,             \* the running enumerator's cursor
    err,                \* the exception or exit that ended the run
    \* observation
    calls,              \* the remote requests of this run, in order
    printed,            \* the lines printed by this run, in order
    history,            \* what the earlier runs were
    \* linear_to_bigquery.py
    etl                 \* its environment, its position and what it has done

vars == <<subLabels, tagged, releases, releases0, memberships, pageSize,
          config, dryRun, args, pc, sub_labels, existing_releases, li, issues,
          ii, release, nodes, cursor, err, calls, printed, history, etl>>

\* What a run of main() does not write by itself.
remoteVars == <<subLabels, tagged, releases, releases0, memberships, pageSize,
                config, etl>>

Min(a, b) == IF a < b THEN a ELSE b

\* ------------------------------------------------------------- the remote

Label(i, n) == [id |-> i, name |-> n]

Release(i, n, v) == [id |-> i, name |-> n, version |-> v]

\* A release's version is unique within its pipeline when present.
VersionsUnique(rs) ==
    \A i, j \in 1..Len(rs) :
        (i # j /\ rs[i].version # None) => rs[i].version # rs[j].version

\* The answer to a paginated query: the page after cursor `after`.
RemotePage(list, after, first) ==
    LET n  == Min(first, pageSize)
        hi == Min(after + n, Len(list))
    IN  [nodes       |-> SubSeq(list, after + 1, hi),
         hasNextPage |-> hi < Len(list),
         endCursor   |-> IF hi > after THEN hi ELSE NoCursor]

\* The responses of the remote.  "http": raise_for_status or the transport
\* raises, the request was not applied; "lost": the transport raises although
\* the remote applied the request (a timeout); "errors": the response carries
\* an errors array; "failed": a mutation answers success=false.
QueryResponses == {"ok", "http", "errors"}
MutationResponses == {"ok", "http", "lost", "errors", "failed"}

Applied(resp) == resp \in {"ok", "lost"}

\* releaseCreate in the remote: the new release gets a fresh id.
RemoteCreate(name, version) ==
    Append(releases, Release(Len(releases) + 1, name, version))

\* issueToReleaseCreate in the remote: asking for an existing membership
\* neither fails nor adds a second record.
RemoteAssociate(issue, rel) ==
    IF BagIn(<<issue, rel>>, memberships)
    THEN memberships
    ELSE memberships (+) SetToBag({<<issue, rel>>})

\* -------------------------------------------------------------- graphql()

\* No exception, no exit.
NoError == [kind |-> "none", data |-> "none"]

\* graphql() without `if "errors" in data: raise RuntimeError(...)`.
GraphqlError_ErrorsIgnored(resp) ==
    CASE resp \in {"http", "lost"} -> [kind |-> "HTTPError", data |-> resp]
      [] OTHER -> NoError

\* The exception graphql() raises on a response, or NoError.  The exception
\* carries what the remote answered.
GraphqlError(resp) ==
    CASE resp \in {"http", "lost"} -> [kind |-> "HTTPError", data |-> resp]
      [] resp = "errors" -> [kind |-> "GraphQL errors", data |-> resp]
      [] OTHER -> NoError

\* A request that carries no ReleaseCreateInput.
NoInput ==
    [keys |-> {}, name |-> None, pipelineId |-> None, stageId |-> None,
     version |-> None]

Call(op, l, c, n, v, i, r, resp) ==
    [op |-> op, li |-> l, cursor |-> c, name |-> n, version |-> v,
     issue |-> i, release |-> r, resp |-> resp, input |-> NoInput]

Query(op, l, c, resp) == Call(op, l, c, None, None, 0, 0, resp)

\* ------------------------------------------------------------- paginate()

\* paginate() with `nodes = page["nodes"]` for `nodes.extend(page["nodes"])`.
paginate_step_Replace(page, ns, cur) ==
    [nodes  |-> page.nodes,
     done   |-> ~page.hasNextPage,
     cursor |-> IF page.hasNextPage THEN page.endCursor ELSE cur]

\* paginate() without `cursor = page["pageInfo"]["endCursor"]`.
paginate_step_NoAdvance(page, ns, cur) ==
    [nodes  |-> ns \o page.nodes,
     done   |-> ~page.hasNextPage,
     cursor |-> cur]

\* One round of the loop of paginate(): the page is appended to nodes; the
\* loop ends on a page without next page, else the cursor advances.
paginate_step(page, ns, cur) ==
    [nodes  |-> ns \o page.nodes,
     done   |-> ~page.hasNextPage,
     cursor |-> IF page.hasNextPage THEN page.endCursor ELSE cur]

\* Answers to the catalog query that carry no errors array and lack a part:
\* releasePipeline null or missing, its releases null or missing, the nodes
\* null or missing, the pageInfo key missing, the pageInfo key null.
AbsentShapes ==
    {"no_pipeline", "no_releases", "no_nodes", "no_pageinfo", "null_pageinfo"}

\* The data of an answer of shape `shape` to the catalog query, `page` being
\* the page asked for.
CatalogData(shape, page) ==
    [releasePipeline |-> shape # "no_pipeline",
     releases        |-> shape \notin {"no_pipeline", "no_releases"},
     hasNodes        |-> shape # "no_nodes",
     pageInfo        |-> CASE shape = "no_pageinfo" -> "missing"
                           [] shape = "null_pageinfo" -> "null"
                           [] OTHER -> "present",
     page            |-> page]

\* One round of the loop of get_releases_in_pipeline() on the data of an
\* answer.  `data.get("releasePipeline") or {}` and `releases.get("releases")
\* or {}` turn an absent part into an empty page; `page.get("nodes") or []`
\* an absent list into no nodes; `page.get("pageInfo", {})` a missing key into
\* no next page, but leaves a null, on which `.get` raises.
releases_step(data, ns, cur) ==
    LET here     == data.releasePipeline /\ data.releases
        pageInfo == IF here THEN data.pageInfo ELSE "missing"
        more     == IF here /\ data.hasNodes THEN data.page.nodes ELSE <<>>
        next     == pageInfo = "present" /\ data.page.hasNextPage
    IN  [nodes  |-> ns \o more,
         err    |-> IF pageInfo = "null"
                    THEN [kind |-> "AttributeError", data |-> "NoneType.get"]
                    ELSE NoError,
         done   |-> ~next,
         cursor |-> IF next THEN data.page.endCursor ELSE cur]

\* ------------------------------------------------------------------ main()

\* No release selected (release = None).
NoRelease == Release(0, None, None)

\* The test of the catalog loop without its name half.
Matches_VersionOnly(r, name, version) == r.version = version

\* The test of the catalog loop without its version half.
Matches_NameOnly(r, name, version) == r.name = name

\* The test of the catalog loop: r.get("version") == version or
\* r.get("name") == name.
Matches(r, name, version) == r.version = version \/ r.name = name

\* The catalog loop without its `break`: the last release that matches.
FindRelease_Last(catalog, name, version) ==
    IF \E k \in 1..Len(catalog) : Matches(catalog[k], name, version)
    THEN catalog[CHOOSE k \in 1..Len(catalog) :
                    /\ Matches(catalog[k], name, version)
                    /\ \A j \in (k + 1)..Len(catalog) : ~Matches(catalog[j], name, version)]
    ELSE NoRelease

\* The catalog loop: the first release of the catalog that matches.
FindRelease(catalog, name, version) ==
    IF \E k \in 1..Len(catalog) : Matches(catalog[k], name, version)
    THEN catalog[CHOOSE k \in 1..Len(catalog) :
                    /\ Matches(catalog[k], name, version)
                    /\ \A j \in 1..(k - 1) : ~Matches(catalog[j], name, version)]
    ELSE NoRelease

\* The dry-run toggle ignored.
Writes_Always(f) == TRUE

\* Whether the run writes: `if not args.dry_run`.
Writes(f) == ~f.dryRun

\* main's frame.
Frame ==
    [pc |-> pc, dryRun |-> dryRun, sub_labels |-> sub_labels,
     existing_releases |-> existing_releases, li |-> li, issues |-> issues,
     ii |-> ii, release |-> release, nodes |-> nodes, cursor |-> cursor,
     err |-> err, printed |-> printed, args |-> args]

\* An exception leaves main(): the run ends with it.
Raise(f, e) == [f EXCEPT !.pc = "error", !.err = e]

\* sys.exit("No sub-labels under parent label").
NoSubLabels == [kind |-> "SystemExit", data |-> "No sub-labels under parent label"]

\* ---------------------------------------------------- main(): the arguments

\* Python's truth of a string or None.
Falsy(v) == v \in {None, ""}

\* The default of an argument: `FILE_VALUE or os.environ.get("NAME")`.
Default(file, env) == IF ~Falsy(file) THEN file ELSE env

\* What parse_args() gives for an argument: the flag when it is on the
\* command line, else the default.
Argument(src) ==
    IF src.flag # None THEN src.flag ELSE Default(src.file, src.env)

\* str.strip() on the values of the model.
Strip(v) ==
    CASE v = " " -> ""
      [] v = " F " -> "F"
      [] OTHER -> v

\* `(args.stage_id or "").strip() or None` without the strip.
release_stage_id_NoStrip(v) ==
    LET t == IF Falsy(v) THEN "" ELSE v
    IN  IF Falsy(t) THEN None ELSE t

\* `(args.stage_id or "").strip() or None`.
release_stage_id(v) ==
    LET t == Strip(IF Falsy(v) THEN "" ELSE v)
    IN  IF Falsy(t) THEN None ELSE t

\* api_key.startswith(("lin_api_", "Bearer ")) on the values of the model.
HasScheme(k) == k \in {"lin_api_F", "Bearer L"}

\* The Authorization header: the key, after "Bearer " unless it has a scheme.
Authorization(k) ==
    [prefix |-> IF HasScheme(k) THEN "" ELSE "Bearer ", key |-> k]

\* No arguments resolved yet.
NoArgs ==
    [api_key |-> [prefix |-> "", key |-> None], parent_label_id |-> None,
     pipeline_id |-> None, release_stage_id |-> None]

Missing(what) == [kind |-> "SystemExit", data |-> what]

\* main() without its three `or sys.exit("Missing ...")`.
AfterParse_NoExit(f, c) ==
    [f EXCEPT !.args =
        [api_key          |-> Authorization(Argument(c.api_key)),
         parent_label_id  |-> Argument(c.parent_label_id),
         pipeline_id      |-> Argument(c.pipeline_id),
         release_stage_id |-> release_stage_id(Argument(c.stage_id))]]

\* main() from parse_args() to its first request: a required value that is
\* None or empty exits with its message; else the stage id is trimmed and the
\* key gets its scheme.
AfterParse(f, c) ==
    IF Falsy(Argument(c.api_key))
    THEN Raise(f, Missing("Missing API key"))
    ELSE IF Falsy(Argument(c.parent_label_id))
    THEN Raise(f, Missing("Missing parent label ID"))
    ELSE IF Falsy(Argument(c.pipeline_id))
    THEN Raise(f, Missing("Missing pipeline ID"))
    ELSE [f EXCEPT !.args =
            [api_key          |-> Authorization(Argument(c.api_key)),
             parent_label_id  |-> Argument(c.parent_label_id),
             pipeline_id      |-> Argument(c.pipeline_id),
             release_stage_id |-> release_stage_id(Argument(c.stage_id))]]

\* The next round of `for lab in sub_labels`, or the end of main().
NextLabel(f) ==
    IF f.li < Len(f.sub_labels)
    THEN [f EXCEPT !.li = @ + 1, !.pc = "issues", !.nodes = <<>>,
                   !.cursor = NoCursor, !.issues = <<>>, !.ii = 0,
                   !.release = NoRelease]
    ELSE [f EXCEPT !.pc = "done"]

\* The next round of `for issue in issues`, or the next label.
NextIssue(f) ==
    IF f.ii < Len(f.issues)
    THEN [f EXCEPT !.ii = @ + 1, !.pc = "assoc"]
    ELSE NextLabel(f)

\* main() loading the catalog whatever the mode.
AfterSubLabels_LoadAlways(f, labs) ==
    LET g == [f EXCEPT !.sub_labels = labs, !.nodes = <<>>,
                       !.cursor = NoCursor, !.existing_releases = <<>>]
    IN  IF labs = <<>>
        THEN Raise(g, NoSubLabels)
        ELSE [g EXCEPT !.pc = "catalog"]

\* main() without `if not sub_labels: sys.exit(...)`.
AfterSubLabels_NoCheck(f, labs) ==
    LET g == [f EXCEPT !.sub_labels = labs, !.nodes = <<>>,
                       !.cursor = NoCursor, !.existing_releases = <<>>]
    IN  IF Writes(g)
        THEN [g EXCEPT !.pc = "catalog"]
        ELSE NextLabel(g)

\* After get_sub_labels returned labs: the exit on no sub-labels, the load of
\* the catalog unless in dry-run mode, then the loop over the sub-labels.
AfterSubLabels(f, labs) ==
    LET g == [f EXCEPT !.sub_labels = labs, !.nodes = <<>>,
                       !.cursor = NoCursor, !.existing_releases = <<>>]
    IN  IF labs = <<>>
        THEN Raise(g, NoSubLabels)
        ELSE IF Writes(g)
             THEN [g EXCEPT !.pc = "catalog"]
             ELSE NextLabel(g)

\* main() without the catalog it loaded.
AfterCatalog_Dropped(f, rs) ==
    NextLabel([f EXCEPT !.existing_releases = <<>>, !.nodes = <<>>,
                        !.cursor = NoCursor])

\* After get_releases_in_pipeline returned rs.
AfterCatalog(f, rs) ==
    NextLabel([f EXCEPT !.existing_releases = rs, !.nodes = <<>>,
                        !.cursor = NoCursor])

\* main() skipping a sub-label without issues before the search of the
\* catalog: no release for it.
AfterIssues_SkipEmpty(f, is) ==
    LET lab == f.sub_labels[f.li]
        g   == [f EXCEPT !.issues = is, !.nodes = <<>>, !.cursor = NoCursor,
                         !.printed = Append(@, [name |-> lab.name, count |-> Len(is)])]
        r   == FindRelease(g.existing_releases, lab.name, lab.name)
    IN  IF ~Writes(g) \/ is = <<>>
        THEN NextLabel(g)
        ELSE IF r = NoRelease
             THEN [g EXCEPT !.pc = "create"]
             ELSE NextIssue([g EXCEPT !.release = r])

\* After get_issues_with_label returned is: the summary line, and unless in
\* dry-run mode the search of the catalog.
AfterIssues(f, is) ==
    LET lab == f.sub_labels[f.li]
        g   == [f EXCEPT !.issues = is, !.nodes = <<>>, !.cursor = NoCursor,
                         !.printed = Append(@, [name |-> lab.name, count |-> Len(is)])]
        r   == FindRelease(g.existing_releases, lab.name, lab.name)
    IN  IF ~Writes(g)
        THEN NextLabel(g)
        ELSE IF r = NoRelease
             THEN [g EXCEPT !.pc = "create"]
             ELSE NextIssue([g EXCEPT !.release = r])

\* main() without `existing_releases.append(release)`.
AfterCreate_NoAppend(f, r) == NextIssue([f EXCEPT !.release = r])

\* After create_release returned r: it joins the catalog.
AfterCreate(f, r) ==
    NextIssue([f EXCEPT !.release = r,
                        !.existing_releases = Append(@, r)])

\* The frame f becomes main's frame.
Become(f) ==
    /\ pc' = f.pc
    /\ dryRun' = f.dryRun
    /\ sub_labels' = f.sub_labels
    /\ existing_releases' = f.existing_releases
    /\ li' = f.li
    /\ issues' = f.issues
    /\ ii' = f.ii
    /\ release' = f.release
    /\ nodes' = f.nodes
    /\ cursor' = f.cursor
    /\ err' = f.err
    /\ printed' = f.printed
    /\ args' = f.args
    /\ UNCHANGED history

\* A fresh frame: main() before its first remote request.
Fresh(d) ==
    [pc |-> "labels", dryRun |-> d, sub_labels |-> <<>>,
     existing_releases |-> <<>>, li |-> 0, issues |-> <<>>, ii |-> 0,
     release |-> NoRelease, nodes |-> <<>>, cursor |-> NoCursor,
     err |-> NoError, printed |-> <<>>, args |-> NoArgs]

\* ----------------------------------------------------------------- actions

\* The issue lists of the remote: the issues 1..n.  An issue may carry
\* several sub-labels.
ItemLists == {[j \in 1..n |-> j] : n \in 0..MaxItems}

RECURSIVE Total(_)
Total(ls) == IF ls = <<>> THEN 0 ELSE Len(Head(ls)) + Total(Tail(ls))

\* What the sub-labels carry: at most MaxItems label-issue pairs in all.
Taggings(k) == {t \in [1..k -> ItemLists] : Total(t) <= MaxItems}

\* The sub-labels of the remote.  The names are interchangeable: the first
\* sub-label is the one named "a".
LabelLists ==
    UNION {{[i \in 1..k |-> Label(i, n[i])] :
              n \in {m \in [1..k -> Names] : k > 0 => m[1] = "a"}} :
           k \in 0..MaxLabels}

ReleaseLists ==
    {rs \in UNION {{[i \in 1..k |-> Release(i, nv[i][1], nv[i][2])] :
                      nv \in [1..k -> Names \X (Names \cup {None})]} :
                   k \in 0..MaxExisting} :
        VersionsUnique(rs)}

\* ---------------------------------------------------- linear_to_bigquery.py

\* What source.read() holds for a stream of ALL_STREAMS: a frame with rows,
\* a frame without rows, no such stream (KeyError), or a stream whose
\* conversion raises.
StreamOutcomes == {"rows", "empty", "missing", "broken"}

\* The streams of ALL_STREAMS (MaxStreams of them at most) and what the read
\* holds for each.
EtlSources == UNION {[1..n -> StreamOutcomes] : n \in 1..MaxStreams}

\* The environment variables LINEAR_API_KEY, GCP_PROJECT_ID and
\* BIGQUERY_DATASET: unset, empty or set.
EtlEnvs ==
    [LINEAR_API_KEY   : {None, "", "key"},
     GCP_PROJECT_ID   : {None, "", "project"},
     BIGQUERY_DATASET : {None, "dataset"}]

NoEtlConfig == [api_key |-> None, project_id |-> None, dataset |-> None]

\* The script before main(): `why` is what ended it, `status` its exit status
\* once pc is "exit".
EtlFresh(env, source) ==
    [pc |-> "start", env |-> env, source |-> source, dry_run |-> FALSE,
     config |-> NoEtlConfig, checked |-> FALSE, si |-> 0, dataframes |-> <<>>,
     load_started |-> FALSE, lj |-> 0, loaded |-> <<>>, status |-> 0,
     why |-> "running"]

\* The script not run.
EtlIdle == EtlFresh([LINEAR_API_KEY |-> None, GCP_PROJECT_ID |-> None,
                     BIGQUERY_DATASET |-> None], <<"rows">>)

\* sys.exit(status), or an exception that leaves main(): the interpreter
\* exits with status 1.
EtlExit(e, status, why) == [e EXCEPT !.pc = "exit", !.status = status, !.why = why]

\* get_config(): the exit on a missing LINEAR_API_KEY, the exit on a missing
\* GCP_PROJECT_ID unless in dry-run mode, the default of the dataset.
get_config(e, dry_run) ==
    IF Falsy(e.env.LINEAR_API_KEY)
    THEN EtlExit(e, 1, "LINEAR_API_KEY")
    ELSE IF Falsy(e.env.GCP_PROJECT_ID) /\ ~dry_run
    THEN EtlExit(e, 1, "GCP_PROJECT_ID")
    ELSE [e EXCEPT !.config =
            [api_key    |-> e.env.LINEAR_API_KEY,
             project_id |-> e.env.GCP_PROJECT_ID,
             dataset    |-> IF e.env.BIGQUERY_DATASET = None
                            THEN "linear_data"
                            ELSE e.env.BIGQUERY_DATASET],
             !.pc = "connect"]

\* main() after extract_linear_data() loading whatever the mode.
AfterExtract_LoadAlways(e) ==
    IF e.dataframes = <<>>
    THEN EtlExit(e, 1, "No data extracted")
    ELSE [e EXCEPT !.pc = "begin", !.load_started = TRUE]

\* main() after extract_linear_data() returned: the exit on no frame, the
\* end of a dry run, else the call of load_to_bigquery().
AfterExtract(e) ==
    IF e.dataframes = <<>>
    THEN EtlExit(e, 1, "No data extracted")
    ELSE IF e.dry_run
    THEN EtlExit(e, 0, "Dry run complete")
    ELSE [e EXCEPT !.pc = "begin", !.load_started = TRUE]

\* The next round of `for stream_name, df in dataframes.items()`, or the end
\* of load_to_bigquery() and of main().
NextTable(e) ==
    IF e.lj < Len(e.dataframes)
    THEN [e EXCEPT !.lj = @ + 1, !.pc = "load"]
    ELSE EtlExit(e, 0, "Pipeline completed")

\* main() up to extract_linear_data(): the arguments, get_config().
EtlMain(d) ==
    /\ etl.pc = "start"
    /\ etl' = get_config([etl EXCEPT !.dry_run = d], d)

\* extract_linear_data() up to its loop: get_source, check() and read(), any
\* of which may raise.
EtlConnect(ok) ==
    /\ etl.pc = "connect"
    /\ etl' = IF ok
              THEN [etl EXCEPT !.checked = TRUE, !.pc = "read"]
              ELSE EtlExit(etl, 1, "exception")

\* One round of `for stream_name in ALL_STREAMS`: the frame joins dataframes,
\* or the exception is logged and the stream left out; after the last round
\* extract_linear_data() returns to main().
EtlReadStream ==
    /\ etl.pc = "read"
    /\ LET i   == etl.si + 1
           out == etl.source[i]
           e   == [etl EXCEPT !.si = i,
                              !.dataframes =
                                  IF out \in {"rows", "empty"}
                                  THEN Append(@, [name |-> i, rows |-> out])
                                  ELSE @]
       IN  etl' = IF i < Len(etl.source) THEN e ELSE AfterExtract(e)

\* load_to_bigquery() up to its loop: the client and the dataset, which may
\* raise.
EtlLoadBegin(ok) ==
    /\ etl.pc = "begin"
    /\ etl' = IF ok THEN NextTable(etl) ELSE EtlExit(etl, 1, "exception")

\* One round of the loop of load_to_bigquery(): an empty frame is skipped,
\* another is loaded, which may raise.
EtlLoadTable(ok) ==
    /\ etl.pc = "load"
    /\ LET df == etl.dataframes[etl.lj]
       IN  etl' = IF df.rows = "empty"
                  THEN NextTable(etl)
                  ELSE IF ok
                  THEN NextTable([etl EXCEPT !.loaded = Append(@, df.name)])
                  ELSE EtlExit(etl, 1, "exception")

Source(flag, env, file) == [flag |-> flag, env |-> env, file |-> file]

\* An invocation as the README describes it: the key in the environment, the
\* two ids on the command line, no stage.
TypicalConfig ==
    [api_key         |-> Source(None, "E", ""),
     parent_label_id |-> Source("F", None, ""),
     pipeline_id     |-> Source("F", None, ""),
     stage_id        |-> Source(None, None, "")]

\* The invocations: each value has its flag absent, empty or given, its
\* environment variable unset or set, and its line of the file empty or
\* filled; the stage id may be blank or padded.
Configs ==
    [api_key         : {Source(f, e, l) : f \in {None, "", "lin_api_F"},
                                          e \in {None, "E"},
                                          l \in {"", "Bearer L"}},
     parent_label_id : {Source(f, e, l) : f \in {None, "", "F"},
                                          e \in {None, "E"},
                                          l \in {"", "L"}},
     pipeline_id     : {Source(f, e, l) : f \in {None, "", "F"},
                                          e \in {None, "E"},
                                          l \in {"", "L"}},
     stage_id        : {Source(f, e, l) : f \in {None, " ", " F "},
                                          e \in {None, "", "E"},
                                          l \in {"", "L"}}]

\* main() has not started.
InitRun ==
    /\ args = NoArgs
    /\ pc = "start"
    /\ dryRun = FALSE
    /\ sub_labels = <<>>
    /\ existing_releases = <<>>
    /\ li = 0
    /\ issues = <<>>
    /\ ii = 0
    /\ release = NoRelease
    /\ nodes = <<>>
    /\ cursor = NoCursor
    /\ err = NoError
    /\ calls = <<>>
    /\ printed = <<>>
    /\ history = [completed |-> FALSE, aborted |-> FALSE, releases |-> <<>>]

Init ==
    /\ subLabels \in LabelLists
    /\ tagged \in Taggings(Len(subLabels))
    /\ releases \in ReleaseLists
    /\ releases0 = releases
    /\ memberships = EmptyBag
    /\ pageSize \in 1..MaxPageSize
    /\ config = TypicalConfig
    /\ etl = EtlIdle
    /\ InitRun

\* main() up to its first remote request: the arguments are parsed.
Start(d) ==
    /\ pc = "start"
    /\ Become(AfterParse(Fresh(d), config))
    /\ UNCHANGED <<calls, remoteVars>>

\* One request of get_sub_labels, answered with resp.
LabelsPage(resp) ==
    /\ pc = "labels"
    /\ calls' = Append(calls, Query("labels", 0, cursor, resp))
    /\ IF GraphqlError(resp) # NoError
       THEN Become(Raise(Frame, GraphqlError(resp)))
       ELSE LET s == paginate_step(RemotePage(subLabels, cursor, First), nodes, cursor)
            IN  IF s.done
                THEN Become(AfterSubLabels(Frame, s.nodes))
                ELSE Become([Frame EXCEPT !.nodes = s.nodes, !.cursor = s.cursor])
    /\ UNCHANGED remoteVars

\* One request of get_releases_in_pipeline, answered with resp.
CatalogPage(resp) ==
    /\ pc = "catalog"
    /\ calls' = Append(calls, Query("catalog", 0, cursor, resp))
    /\ IF GraphqlError(resp) # NoError
       THEN Become(Raise(Frame, GraphqlError(resp)))
       ELSE LET shape == IF resp \in AbsentShapes THEN resp ELSE "full"
                page  == RemotePage(releases, cursor, First)
                s     == releases_step(CatalogData(shape, page), nodes, cursor)
            IN  IF s.err # NoError
                THEN Become(Raise(Frame, s.err))
                ELSE IF s.done
                     THEN Become(AfterCatalog(Frame, s.nodes))
                     ELSE Become([Frame EXCEPT !.nodes = s.nodes,
                                               !.cursor = s.cursor])
    /\ UNCHANGED remoteVars

\* One request of get_issues_with_label for the current label, answered
\* with resp.
IssuesPage(resp) ==
    /\ pc = "issues"
    /\ calls' = Append(calls, Query("issues", li, cursor, resp))
    /\ IF GraphqlError(resp) # NoError
       THEN Become(Raise(Frame, GraphqlError(resp)))
       ELSE LET s == paginate_step(RemotePage(tagged[sub_labels[li].id], cursor, First),
                                   nodes, cursor)
            IN  IF s.done
                THEN Become(AfterIssues(Frame, s.nodes))
                ELSE Become([Frame EXCEPT !.nodes = s.nodes, !.cursor = s.cursor])
    /\ UNCHANGED remoteVars

\* The ReleaseCreateInput of create_release(): name and pipelineId, stageId
\* when stage_id is truthy, version when it is not None.
create_input(pipeline_id, name, stage_id, version) ==
    [keys       |-> {"name", "pipelineId"}
                    \cup (IF ~Falsy(stage_id) THEN {"stageId"} ELSE {})
                    \cup (IF version # None THEN {"version"} ELSE {}),
     name       |-> name,
     pipelineId |-> pipeline_id,
     stageId    |-> IF ~Falsy(stage_id) THEN stage_id ELSE None,
     version    |-> version]

\* create_release() without its test of success.
create_release_Unchecked(resp, created) ==
    IF GraphqlError(resp) # NoError
    THEN [err |-> GraphqlError(resp), release |-> NoRelease]
    ELSE [err |-> NoError, release |-> created]

\* create_release(): the exception it raises on resp, or the release the
\* remote created.  On success=false the exception carries the response.
create_release(resp, created) ==
    IF GraphqlError(resp) # NoError
    THEN [err |-> GraphqlError(resp), release |-> NoRelease]
    ELSE IF resp = "failed"
         THEN [err |-> [kind |-> "releaseCreate failed", data |-> resp],
               release |-> NoRelease]
         ELSE [err |-> NoError, release |-> created]

\* add_issue_to_release(): the exception it raises on resp, or NoError.
add_issue_to_release(resp) ==
    IF GraphqlError(resp) # NoError
    THEN GraphqlError(resp)
    ELSE IF resp = "failed"
         THEN [kind |-> "issueToReleaseCreate failed", data |-> resp]
         ELSE NoError

\* The exception of add_issue_to_release swallowed: skip and continue.
AssociateFailed_Skip(f, e) == NextIssue(f)

\* What main() does when add_issue_to_release raised e: the exception leaves
\* the loop over the issues and main().
AssociateFailed(f, e) == Raise(f, e)

\* The call of create_release for the current label, answered with resp.
CreateRelease(resp) ==
    /\ pc = "create"
    /\ LET name    == sub_labels[li].name
           version == name
           created == RemoteCreate(name, version)
           out     == create_release(resp, created[Len(created)])
           input   == create_input(args.pipeline_id, name,
                                   args.release_stage_id, version)
       IN  /\ calls' = Append(calls,
                 [Call("create", li, NoCursor, name, version, 0, 0, resp)
                    EXCEPT !.input = input])
           /\ releases' = IF Applied(resp) THEN created ELSE releases
           /\ IF out.err # NoError
              THEN Become(Raise(Frame, out.err))
              ELSE Become(AfterCreate(Frame, out.release))
    /\ UNCHANGED <<subLabels, tagged, releases0, memberships, pageSize, config,
                   etl>>

\* The call of add_issue_to_release for the current issue, answered with
\* resp.
AddIssue(resp) ==
    /\ pc = "assoc"
    /\ calls' = Append(calls, Call("assoc", li, NoCursor, None, None,
                                   issues[ii], release.id, resp))
    /\ memberships' = IF Applied(resp)
                      THEN RemoteAssociate(issues[ii], release.id)
                      ELSE memberships
    /\ IF add_issue_to_release(resp) # NoError
       THEN Become(AssociateFailed(Frame, add_issue_to_release(resp)))
       ELSE Become(NextIssue(Frame))
    /\ UNCHANGED <<subLabels, tagged, releases, releases0, pageSize, config,
                   etl>>

\* The operator invokes the script again, against the remote as it is.  The
\* history keeps whether a non-dry-run run has completed, the releases of the
\* pipeline when the first one did, and whether a non-dry-run run was aborted.
Rerun ==
    /\ pc \in {"done", "error"}
    /\ pc' = "start"
    /\ dryRun' = FALSE
    /\ args' = NoArgs
    /\ sub_labels' = <<>>
    /\ existing_releases' = <<>>
    /\ li' = 0
    /\ issues' = <<>>
    /\ ii' = 0
    /\ release' = NoRelease
    /\ nodes' = <<>>
    /\ cursor' = NoCursor
    /\ err' = NoError
    /\ calls' = <<>>
    /\ printed' = <<>>
    /\ history' = [completed |-> history.completed \/ (pc = "done" /\ ~dryRun),
                   aborted   |-> history.aborted \/ (pc = "error" /\ ~dryRun),
                   releases  |-> IF ~history.completed /\ pc = "done" /\ ~dryRun
                                 THEN releases
                                 ELSE history.releases]
    /\ UNCHANGED remoteVars

Next ==
    \/ \E d \in BOOLEAN : Start(d)
    \/ \E resp \in QueryResponses : LabelsPage(resp)
    \/ \E resp \in QueryResponses : CatalogPage(resp)
    \/ \E resp \in QueryResponses : IssuesPage(resp)
    \/ \E resp \in MutationResponses : CreateRelease(resp)
    \/ \E resp \in MutationResponses : AddIssue(resp)

\* One run of the script.
Spec == Init /\ [][Next]_vars

NextRerun == Next \/ Rerun

\* Any number of runs of the script against the same remote.  Pagination does
\* not depend on the run: the remote here serves its largest pages.
InitRerun == Init /\ pageSize = MaxPageSize

SpecRerun == InitRerun /\ [][NextRerun]_vars

\* A run against a remote that may also answer the catalog query with a part
\* absent.  The remote here serves pages of one element, so that a catalog
\* takes several requests.
NextAbsent ==
    \/ Next
    \/ \E resp \in AbsentShapes : CatalogPage(resp)

InitAbsent == Init /\ pageSize = 1

SpecAbsent == InitAbsent /\ [][NextAbsent]_vars

\* A run of any invocation against one remote: a sub-label "a" with one
\* issue, a pipeline without releases.
InitConfig ==
    /\ subLabels = <<Label(1, "a")>>
    /\ tagged = <<(<<1>>)>>
    /\ releases = <<>>
    /\ releases0 = <<>>
    /\ memberships = EmptyBag
    /\ pageSize = 1
    /\ config \in Configs
    /\ etl = EtlIdle
    /\ InitRun

SpecConfig == InitConfig /\ [][Next]_vars

\* What linear_to_bigquery.py does not write.
migrationVars ==
    <<subLabels, tagged, releases, releases0, memberships, pageSize, config,
      dryRun, args, pc, sub_labels, existing_releases, li, issues, ii,
      release, nodes, cursor, err, calls, printed, history>>

NextEtl ==
    \/ \E d \in BOOLEAN : EtlMain(d) /\ UNCHANGED migrationVars
    \/ \E ok \in BOOLEAN : EtlConnect(ok) /\ UNCHANGED migrationVars
    \/ EtlReadStream /\ UNCHANGED migrationVars
    \/ \E ok \in BOOLEAN : EtlLoadBegin(ok) /\ UNCHANGED migrationVars
    \/ \E ok \in BOOLEAN : EtlLoadTable(ok) /\ UNCHANGED migrationVars

\* A run of linear_to_bigquery.py in any environment, the migration script
\* not run.
InitEtl ==
    /\ subLabels = <<>>
    /\ tagged = <<>>
    /\ releases = <<>>
    /\ releases0 = <<>>
    /\ memberships = EmptyBag
    /\ pageSize = 1
    /\ config = TypicalConfig
    /\ etl \in {EtlFresh(env, source) : env \in EtlEnvs, source \in EtlSources}
    /\ InitRun

SpecEtl == InitEtl /\ [][NextEtl]_vars

\* ------------------------------------------------------------------ claims

CallIdx == 1..Len(calls)

\* The calls of operation op of this run.
CallsOf(op) == {k \in CallIdx : calls[k].op = op}

\* The number of pages in which the remote serves list.
Pages(list) ==
    LET n == Min(First, pageSize)
    IN  IF list = <<>> THEN 1 ELSE (Len(list) + n - 1) \div n

\* C1: in a non-dry-run run, for a sub-label named V such that the release
\* catalog at the start of the run holds a release of version V, no
\* create-release call is issued for that sub-label, and every associate call
\* for its issues carries the id of a release that was in that catalog.
C1_ExistingVersionReused ==
    ~dryRun =>
        \A k \in CallIdx :
            calls[k].op \in {"create", "assoc"} =>
                LET V == sub_labels[calls[k].li].name
                IN  (\E j \in 1..Len(releases0) : releases0[j].version = V) =>
                        /\ calls[k].op = "assoc"
                        /\ \E j \in 1..Len(releases0) :
                              releases0[j].id = calls[k].release

\* A complete run that associated an issue of a sub-label whose name is the
\* version, and not the name, of a release of the catalog.
C1_Witness ==
    /\ pc = "done"
    /\ ~dryRun
    /\ \E k \in CallsOf("assoc") :
          \E j \in 1..Len(releases0) :
              /\ releases0[j].version = sub_labels[calls[k].li].name
              /\ releases0[j].name # sub_labels[calls[k].li].name

\* C2: once a non-dry-run run has completed, a later run issues no
\* create-release call and the releases of the pipeline stay those the first
\* complete run left; and at no time does the remote hold a membership of an
\* issue in a release more than once.
C2_RerunIdempotent ==
    /\ history.completed =>
          /\ CallsOf("create") = {}
          /\ releases = history.releases
    /\ \A m \in BagToSet(memberships) : CopiesIn(m, memberships) = 1

\* A second complete non-dry-run run, after a run that created a release: it
\* asked again for the memberships.
C2_Witness ==
    /\ history.completed
    /\ pc = "done"
    /\ ~dryRun
    /\ Len(releases) > Len(releases0)
    /\ \E k \in CallsOf("assoc") :
          calls[k].resp = "ok" /\ calls[k].release > Len(releases0)

\* C3: every enumerator returns the nodes of all the pages of the remote, in
\* the order of the pages, none dropped, doubled or moved, with one request
\* per page: the sub-labels, the issues of a label (also the count printed
\* for it), and the releases of the pipeline.
C3_PaginationComplete ==
    /\ sub_labels # <<>> =>
          /\ sub_labels = subLabels
          /\ Cardinality(CallsOf("labels")) = Pages(subLabels)
    /\ err = NoSubLabels => subLabels = <<>>
    /\ pc \in {"create", "assoc"} =>
          /\ issues = tagged[sub_labels[li].id]
          /\ Cardinality({k \in CallsOf("issues") : calls[k].li = li})
                = Pages(tagged[sub_labels[li].id])
    /\ \A k \in 1..Len(printed) :
          printed[k].count = Len(tagged[sub_labels[k].id])
    /\ (~dryRun /\ li >= 1) =>
          /\ Len(existing_releases) >= Len(releases0)
          /\ SubSeq(existing_releases, 1, Len(releases0)) = releases0
          /\ Cardinality(CallsOf("catalog")) = Pages(releases0)

\* A complete run in which each of the three enumerators took two pages.
C3_Witness ==
    /\ pc = "done"
    /\ ~dryRun
    /\ \E k \in CallsOf("labels") : calls[k].cursor # NoCursor
    /\ \E k \in CallsOf("catalog") : calls[k].cursor # NoCursor
    /\ \E k \in CallsOf("issues") : calls[k].cursor # NoCursor

\* C4: a dry run issues no create-release call and no associate call, and
\* leaves the releases and the memberships of the remote as they were.
C4_DryRunPurity ==
    dryRun =>
        /\ CallsOf("create") = {}
        /\ CallsOf("assoc") = {}
        /\ releases = releases0
        /\ memberships = EmptyBag

\* A complete dry run over two sub-labels, one of them with two issues and
\* without a release to reuse.
C4_Witness ==
    /\ dryRun
    /\ pc = "done"
    /\ Len(sub_labels) = 2
    /\ releases0 = <<>>
    /\ \E k \in 1..Len(printed) : printed[k].count = 2

\* C5: an associate call that fails (transport error, errors array or
\* success=false) is the last remote call of the run: no associate call for
\* a later issue is issued, and the run has ended with that failure.
C5_FailFast ==
    \A k \in CallsOf("assoc") :
        calls[k].resp # "ok" =>
            /\ k = Len(calls)
            /\ pc = "error"
            /\ err.data = calls[k].resp
            /\ err.kind \in {"HTTPError", "GraphQL errors", "issueToReleaseCreate failed"}

\* The first of two associate calls of a sub-label answered success=false.
C5_Witness ==
    /\ pc = "error"
    /\ calls # <<>>
    /\ calls[Len(calls)].op = "assoc"
    /\ calls[Len(calls)].resp = "failed"
    /\ ii = 1
    /\ Len(issues) = 2

\* The releases of the pipeline that match the name N, by name or by version.
MatchingReleases(N) ==
    {r \in 1..Len(releases) : releases[r].name = N \/ releases[r].version = N}

\* The releases the runs created for the name N.
CreatedReleases(N) ==
    {r \in (Len(releases0) + 1)..Len(releases) : releases[r].name = N}

\* C6 as stated: a complete non-dry-run run after an aborted one ends with
\* exactly one release of the pipeline whose name or version is the
\* sub-label's name, every issue of the sub-label associated with it, and at
\* most one release created for the sub-label.
C6_ExactlyOneRelease ==
    (history.aborted /\ pc = "done" /\ ~dryRun) =>
        \A l \in 1..Len(subLabels) :
            LET N == subLabels[l].name
            IN  /\ Cardinality(MatchingReleases(N)) = 1
                /\ \A r \in MatchingReleases(N) :
                      \A j \in 1..Len(tagged[l]) :
                          BagIn(<<tagged[l][j], releases[r].id>>, memberships)
                /\ Cardinality(CreatedReleases(N)) <= 1

\* C6, amended: a complete non-dry-run run after an aborted one ends with at
\* least one release of the pipeline whose name or version is the sub-label's
\* name, every issue of the sub-label associated with the first such release
\* of the pipeline, and at most one release created for the sub-label's name
\* by all the runs together.
C6_Recovery ==
    (history.aborted /\ pc = "done" /\ ~dryRun) =>
        \A l \in 1..Len(subLabels) :
            LET N == subLabels[l].name
            IN  /\ MatchingReleases(N) # {}
                /\ \E r \in MatchingReleases(N) :
                      /\ \A q \in MatchingReleases(N) : r <= q
                      /\ \A j \in 1..Len(tagged[l]) :
                            BagIn(<<tagged[l][j], releases[r].id>>, memberships)
                /\ Cardinality(CreatedReleases(N)) <= 1

\* A complete run, the first to complete, after a run that was aborted after
\* it had created a release: it created none and associated an issue with
\* that release.
C6_Witness ==
    /\ history.aborted
    /\ ~history.completed
    /\ pc = "done"
    /\ ~dryRun
    /\ CallsOf("create") = {}
    /\ \E k \in CallsOf("assoc") : calls[k].release > Len(releases0)

\* C7 as stated: when the catalog holds a release whose version is the name
\* of the sub-label, the release selected for the sub-label is one of that
\* version, also when a release of that name and another version comes
\* earlier in the catalog.
C7_VersionFirst ==
    pc = "assoc" =>
        LET N == sub_labels[li].name
        IN  (\E j \in 1..Len(existing_releases) : existing_releases[j].version = N)
                => release.version = N

\* C8: when the enumeration of the sub-labels returns no label, the run ends
\* with the exit "No sub-labels under parent label", and the only requests it
\* issued are those of that enumeration: no catalog query, no membership query,
\* no create-release call and no associate call, dry run or not.
C8_EmptyParent ==
    /\ err = NoSubLabels =>
          /\ pc = "error"
          /\ \A k \in CallIdx : calls[k].op = "labels"
          /\ releases = releases0
          /\ memberships = EmptyBag
    /\ (subLabels = <<>> /\ calls # <<>> /\ calls[1].resp = "ok") =>
          /\ err = NoSubLabels
          /\ Len(calls) = 1

\* A non-dry-run run against a parent label without sub-labels and a pipeline
\* with releases.
C8_Witness ==
    /\ err = NoSubLabels
    /\ ~dryRun
    /\ subLabels = <<>>
    /\ releases0 # <<>>

\* C9: an error-free non-dry-run run against a pipeline without releases and
\* sub-labels of pairwise distinct names issues exactly one create-release
\* call per sub-label, of name and version the sub-label's name, exactly one
\* associate call per sub-label and issue tagged with it, carrying the id of
\* the release created for the sub-label, and prints one line per sub-label,
\* its name and its number of issues, in the order of the sub-labels.
C9_CallAccounting ==
    ( /\ pc = "done"
      /\ ~dryRun
      /\ releases0 = <<>>
      /\ \A i, j \in 1..Len(subLabels) :
            i # j => subLabels[i].name # subLabels[j].name ) =>
        /\ Cardinality(CallsOf("create")) = Len(subLabels)
        /\ \A l \in 1..Len(subLabels) :
              \E k \in CallsOf("create") :
                  /\ calls[k].li = l
                  /\ calls[k].name = subLabels[l].name
                  /\ calls[k].version = subLabels[l].name
        /\ Cardinality(CallsOf("assoc")) = Total(tagged)
        /\ \A l \in 1..Len(subLabels) :
              \A j \in 1..Len(tagged[l]) :
                  \E k \in CallsOf("assoc") :
                      /\ calls[k].li = l
                      /\ calls[k].issue = tagged[l][j]
                      /\ \E r \in 1..Len(releases) :
                            /\ releases[r].name = subLabels[l].name
                            /\ releases[r].version = subLabels[l].name
                            /\ releases[r].id = calls[k].release
        /\ printed = [l \in 1..Len(subLabels) |->
                        [name |-> subLabels[l].name, count |-> Len(tagged[l])]]

\* The run over a sub-label with two issues and a sub-label without issues.
C9_Witness ==
    /\ pc = "done"
    /\ ~dryRun
    /\ releases0 = <<>>
    /\ Len(subLabels) = 2
    /\ subLabels[1].name # subLabels[2].name
    /\ Len(tagged[1]) = 2
    /\ Len(tagged[2]) = 0

\* C10: a create-release call answered success=false is the last remote call
\* of the run; the run has ended with an error that carries the response; no
\* release joined the in-memory catalog, no associate call was issued for the
\* sub-label, and no later sub-label was processed.
C10_CreateFailed ==
    \A k \in CallsOf("create") :
        calls[k].resp = "failed" =>
            /\ k = Len(calls)
            /\ pc = "error"
            /\ err = [kind |-> "releaseCreate failed", data |-> calls[k].resp]
            /\ release = NoRelease
            /\ Len(existing_releases)
                 = Len(releases0)
                   + Cardinality({j \in CallsOf("create") : calls[j].resp = "ok"})
            /\ \A j \in CallIdx : calls[j].li <= calls[k].li
            /\ \A j \in CallsOf("assoc") : calls[j].li # calls[k].li

\* The create-release call of the first of two sub-labels, one with issues,
\* answered success=false.
C10_Witness ==
    /\ pc = "error"
    /\ calls # <<>>
    /\ calls[Len(calls)].op = "create"
    /\ calls[Len(calls)].resp = "failed"
    /\ li = 1
    /\ Len(sub_labels) = 2
    /\ issues # <<>>

\* C14: a release created during a non-dry-run run has joined the in-memory
\* catalog as soon as its create-release call has succeeded, so that at most
\* one create-release call is issued for a name, and the issues of a later
\* sub-label of that name are associated with the release created for the
\* earlier one.
C14_InRunCache ==
    ~dryRun =>
        /\ \A N \in Names :
              Cardinality({k \in CallsOf("create") : calls[k].name = N}) <= 1
        /\ \A c \in CallsOf("create") :
              calls[c].resp = "ok" =>
                  \E j \in 1..Len(existing_releases) :
                      /\ existing_releases[j].id > Len(releases0)
                      /\ existing_releases[j].name = calls[c].name
                      /\ existing_releases[j].version = calls[c].name
        /\ \A k \in CallsOf("assoc") :
              \A c \in CallsOf("create") :
                  ( /\ calls[c].li < calls[k].li
                    /\ calls[c].name = sub_labels[calls[k].li].name ) =>
                      calls[k].release
                        = Len(releases0)
                          + Cardinality({j \in CallsOf("create") : j <= c})

\* Two sub-labels of one name and a pipeline without releases: an issue of
\* the second is associated after the release was created for the first.
C14_Witness ==
    /\ ~dryRun
    /\ releases0 = <<>>
    /\ Len(sub_labels) = 2
    /\ sub_labels[1].name = sub_labels[2].name
    /\ \E k \in CallsOf("assoc") : calls[k].li = 2 /\ calls[k].resp = "ok"

\* C15: the release catalog is enumerated exactly once in a non-dry-run run
\* that found a sub-label, after the enumeration of the sub-labels and before
\* the first request about issues or releases of a sub-label; a dry run and a
\* run without sub-labels never request it.
C15_CatalogOnce ==
    LET loads == {k \in CallsOf("catalog") : calls[k].cursor = NoCursor}
        loop  == CallsOf("issues") \cup CallsOf("create") \cup CallsOf("assoc")
    IN  /\ Cardinality(loads) <= 1
        /\ (dryRun \/ sub_labels = <<>>) => CallsOf("catalog") = {}
        /\ (~dryRun /\ li >= 1) => Cardinality(loads) = 1
        /\ (~dryRun /\ pc = "error" /\ li = 0 /\ sub_labels # <<>>) =>
               Cardinality(loads) = 1
        /\ \A k \in CallsOf("catalog") :
              /\ \A j \in CallsOf("labels") : j < k
              /\ \A j \in loop : k < j
              /\ \A j \in CallsOf("catalog") : j < k => calls[j].resp = "ok"

\* A complete non-dry-run run that read the catalog in more than one page
\* and went on to associate an issue.
C15_Witness ==
    /\ pc = "done"
    /\ ~dryRun
    /\ Cardinality(CallsOf("catalog")) >= 2
    /\ CallsOf("assoc") # {}

\* C16: a remote call that ended in a transport error, in a response with an
\* errors array or in success=false is the last call of the run, and the run
\* has ended with an error: nothing is retried, no later sub-label is
\* processed.
C16_NoRetry ==
    \A k \in CallIdx :
        calls[k].resp # "ok" =>
            /\ k = Len(calls)
            /\ pc = "error"
            /\ err # NoError
            /\ err.data = calls[k].resp

\* A run that failed on a request for the second sub-label, the first
\* sub-label done.
C16_Witness ==
    /\ pc = "error"
    /\ Len(sub_labels) = 2
    /\ calls # <<>>
    /\ calls[Len(calls)].li = 2
    /\ calls[Len(calls)].resp = "errors"
    /\ CallsOf("assoc") # {}

\* The list a request of paginate() enumerates.
Enumerated(k) ==
    IF calls[k].op = "labels" THEN subLabels
    ELSE tagged[sub_labels[calls[k].li].id]

\* The page the remote returned to request k.
PageOf(k) == RemotePage(Enumerated(k), calls[k].cursor, First)

\* Request k continues the enumeration of request k - 1.
Continues(k) ==
    /\ k > 1
    /\ calls[k - 1].op = calls[k].op
    /\ calls[k - 1].li = calls[k].li

\* C17: the first request of an enumeration by paginate carries no cursor;
\* every later one carries the endCursor of the page before it, which had a
\* next page; after a page without next page the enumeration issues no
\* request, and after a page with one it issues the next: paginate returns
\* exactly when the remote returned a page without next page, having issued
\* one request per page.
C17_CursorProtocol ==
    \A k \in CallsOf("labels") \cup CallsOf("issues") :
        /\ ~Continues(k) => calls[k].cursor = NoCursor
        /\ Continues(k) =>
              /\ calls[k - 1].resp = "ok"
              /\ PageOf(k - 1).hasNextPage
              /\ calls[k].cursor = PageOf(k - 1).endCursor
        /\ (calls[k].resp = "ok" /\ PageOf(k).hasNextPage) =>
              IF k = Len(calls)
              THEN pc = calls[k].op /\ cursor = PageOf(k).endCursor
              ELSE Continues(k + 1)
        /\ (calls[k].resp = "ok" /\ ~PageOf(k).hasNextPage) =>
              /\ k < Len(calls) => ~Continues(k + 1)
              /\ k = Len(calls) => pc # calls[k].op \/ li # calls[k].li
              /\ Cardinality({j \in 1..k : /\ calls[j].op = calls[k].op
                                            /\ calls[j].li = calls[k].li})
                   = Pages(Enumerated(k))

\* An enumeration of the issues of a sub-label that took two requests, the
\* second with the cursor of the first page, and returned.
C17_Witness ==
    \E k \in CallsOf("issues") :
        /\ Continues(k)
        /\ calls[k].cursor # NoCursor
        /\ calls[k].resp = "ok"
        /\ ~PageOf(k).hasNextPage
        /\ k < Len(calls)

\* The in-memory catalog when the run reached sub-label l: the catalog that
\* was loaded and the releases created for the sub-labels before l.
CatalogAt(l) ==
    SubSeq(existing_releases, 1,
           Len(releases0) + Cardinality({c \in CallsOf("create") : calls[c].li < l}))

\* C18: all associate calls for the issues of one sub-label carry one release
\* id: that of the first entry, in catalog order, of the in-memory catalog
\* whose version or name is the sub-label's name, or, when there is no such
\* entry, that of the release created for the sub-label.
C18_OneReleasePerLabel ==
    \A k \in CallsOf("assoc") :
        LET l    == calls[k].li
            N    == sub_labels[l].name
            cat  == CatalogAt(l)
            hits == {j \in 1..Len(cat) : cat[j].version = N \/ cat[j].name = N}
            made == {c \in CallsOf("create") : calls[c].li = l}
        IN  /\ \A j \in CallsOf("assoc") :
                  calls[j].li = l => calls[j].release = calls[k].release
            /\ IF hits # {}
               THEN /\ made = {}
                    /\ \E h \in hits :
                          /\ \A g \in hits : h <= g
                          /\ calls[k].release = cat[h].id
               ELSE /\ \E c \in made : c < k /\ calls[c].resp = "ok"
                    /\ calls[k].release = existing_releases[Len(cat) + 1].id
                    /\ \A j \in 1..Len(releases0) :
                          releases0[j].id # calls[k].release

\* Two issues of one sub-label associated while two releases of the catalog
\* match its name.
C18_Witness ==
    \E k \in CallsOf("assoc") :
        /\ calls[k].issue = 2
        /\ calls[k].resp = "ok"
        /\ \E i, j \in 1..Len(releases0) :
              /\ i < j
              /\ releases0[i].name = sub_labels[calls[k].li].name
              /\ releases0[j].version = sub_labels[calls[k].li].name

\* C20: a catalog request answered without errors array and with the
\* releasePipeline, its releases, the nodes or the pageInfo null or missing is
\* the last request of get_releases_in_pipeline, which returns the nodes
\* collected so far without an error: the run goes on.
C20_AbsentTolerated ==
    \A k \in CallsOf("catalog") :
        calls[k].resp \in AbsentShapes =>
            /\ \A j \in CallsOf("catalog") : j <= k
            /\ k = Len(calls) =>
                  /\ pc # "error"
                  /\ pc # "catalog"
                  /\ \A j \in 1..Len(existing_releases) :
                        existing_releases[j] = releases0[j]

\* The values a run needs and the optional stage id.
Required == {"api_key", "parent_label_id", "pipeline_id"}

\* The value of a source under the order flag, environment variable, line of
\* the file.
FlagEnvFile(src) ==
    IF src.flag # None THEN src.flag
    ELSE IF src.env \notin {None, ""} THEN src.env
    ELSE src.file

\* A stage id as it is used: trimmed, None when nothing is left.
Trimmed(v) ==
    CASE v \in {None, "", " "} -> None
      [] v = " F " -> "F"
      [] OTHER -> v

\* C11: each of the API key, the parent-label id, the release-group id and
\* the stage id is resolved in the order flag, environment variable, in-file
\* default: without flag and with both the environment variable and the
\* in-file default non-empty, the run uses the environment variable's value.
C11_Precedence ==
    args # NoArgs =>
        /\ args.api_key.key = FlagEnvFile(config.api_key)
        /\ args.parent_label_id = FlagEnvFile(config.parent_label_id)
        /\ args.pipeline_id = FlagEnvFile(config.pipeline_id)
        /\ args.release_stage_id = Trimmed(FlagEnvFile(config.stage_id))

\* C12: when the API key, the parent-label id or the release-group id
\* resolves to None or to the empty string, the run ends with the exit of a
\* missing value, which has a non-zero status, and has issued no remote call.
C12_ConfigBeforeIO ==
    (pc # "start" /\ \E K \in Required : Argument(config[K]) \in {None, ""}) =>
        /\ pc = "error"
        /\ err.kind = "SystemExit"
        /\ err.data \in {"Missing API key", "Missing parent label ID",
                          "Missing pipeline ID"}
        /\ calls = <<>>
        /\ args = NoArgs

\* A run that found its key and its parent-label id and exited on the
\* missing release-group id, the variable of which is set but whose flag is
\* given empty.
C12_Witness ==
    /\ pc = "error"
    /\ err = Missing("Missing pipeline ID")
    /\ config.pipeline_id.flag = ""
    /\ config.pipeline_id.env = "E"
    /\ calls = <<>>

\* C19: the input of every create-release call has a stageId exactly when
\* the stage id the run was given is non-empty after trimming, and then the
\* trimmed one; it always has the name, the release-group id and a version
\* equal to the name.
C19_StageOnCreate ==
    \A k \in CallsOf("create") :
        LET input == calls[k].input
            given == Argument(config.stage_id)
        IN  /\ ("stageId" \in input.keys) <=> (given \notin {None, "", " "})
            /\ "stageId" \in input.keys => input.stageId = Trimmed(given)
            /\ {"name", "pipelineId", "version"} \subseteq input.keys
            /\ input.name = sub_labels[calls[k].li].name
            /\ input.version = input.name
            /\ input.pipelineId = Argument(config.pipeline_id)
            /\ input.pipelineId \notin {None, ""}

\* A release created by a run whose stage id was given as a blank.
C19_Witness ==
    \E k \in CallsOf("create") :
        /\ config.stage_id.flag = " "
        /\ "stageId" \notin calls[k].input.keys
        /\ calls[k].resp = "ok"

\* LINEAR_API_KEY, GCP_PROJECT_ID: set and not empty.
EtlSet(name) == etl.env[name] \notin {None, ""}

\* extract_linear_data() has returned.
Extracted == etl.checked /\ etl.si = Len(etl.source)

\* C13: the load into BigQuery is never started in dry-run mode, and in full
\* mode only with LINEAR_API_KEY and GCP_PROJECT_ID set and after the
\* extraction returned at least one stream; a missing LINEAR_API_KEY, a
\* missing GCP_PROJECT_ID in full mode and an extraction without streams each
\* end the run with status 1 and without load; a dry run does not need
\* GCP_PROJECT_ID.
C13_EtlGating ==
    /\ etl.load_started =>
          /\ ~etl.dry_run
          /\ EtlSet("LINEAR_API_KEY")
          /\ EtlSet("GCP_PROJECT_ID")
          /\ Extracted
          /\ etl.dataframes # <<>>
    /\ etl.loaded # <<>> => etl.load_started
    /\ (etl.pc # "start" /\ ~EtlSet("LINEAR_API_KEY")) =>
          /\ etl.pc = "exit" /\ etl.status = 1
          /\ ~etl.checked /\ ~etl.load_started
    /\ (etl.pc # "start" /\ ~etl.dry_run /\ ~EtlSet("GCP_PROJECT_ID")) =>
          /\ etl.pc = "exit" /\ etl.status = 1
          /\ ~etl.checked /\ ~etl.load_started
    /\ (Extracted /\ etl.dataframes = <<>>) =>
          /\ etl.pc = "exit" /\ etl.status = 1
          /\ ~etl.load_started
    /\ (etl.pc = "exit" /\ etl.dry_run /\ EtlSet("LINEAR_API_KEY")) =>
          etl.why # "GCP_PROJECT_ID"
    /\ (etl.pc = "exit" /\ etl.dry_run /\ EtlSet("LINEAR_API_KEY")
          /\ Extracted /\ etl.dataframes # <<>>) => etl.status = 0

\* A full run that completed and loaded a stream, after an extraction in
\* which another stream was not found.
C13_Witness ==
    /\ ~etl.dry_run
    /\ etl.pc = "exit"
    /\ etl.status = 0
    /\ etl.loaded # <<>>
    /\ Len(etl.dataframes) < Len(etl.source)

====
